---- MODULE Spec2Model ----
(***************************************************************************)
(* The persistence layer of src/Model/model.py: the tables students,       *)
(* tweets and admins of one SQLite file, and the class methods that read   *)
(* and write them.  Every method opens its own Session, so a call is one   *)
(* atomic step in the sequential specifications; SpecRace splits the two   *)
(* find-or-create methods at their statements.                             *)
(***************************************************************************)
EXTENDS Integers, FiniteSets, Sequences, TLC

VARIABLES
    students,   \* rows of table "students"
    tweets,     \* rows of table "tweets"
    admins,     \* rows of table "admins"
    now,        \* the clock read by datetime.now(timezone.utc)
    pre,        \* history: the three tables as they were before the last call
    prev,       \* history: the find-or-create call made just before the last call
    last,       \* history: the last call, its argument and what it returned
    newest,     \* history: the id given to the tweet created last
    issued,     \* history: the largest id ever given to an admin row
    pc,         \* SpecRace: the statement each caller is at
    loc         \* SpecRace: the local variables of each caller

vars == <<students, tweets, admins, now, pre, prev, last, newest, issued,
          pc, loc>>

----------------------------------------------------------------------------
(* Bounds of the model *)

MaxClock == 2
MaxTweets == 2
MaxAdmins == 2
MaxStudents == 2

(* Values *)

\* Python None, SQL NULL, in an integer column (ids and times start at 1)
NULL == 0
\* None in the nullable column tweets.username
NoName == "None"

ChatIds == {100, 200}
\* (username, first_name, last_name) as callers supply them: every field
\* differs from alice/A/L in one tuple, and one tuple has no username
UserInfos ==
    { [username |-> "alice", first_name |-> "A", last_name |-> "L"],
      [username |-> "bob",   first_name |-> "A", last_name |-> "L"],
      [username |-> "alice", first_name |-> "B", last_name |-> "L"],
      [username |-> "alice", first_name |-> "A", last_name |-> "M"],
      [username |-> NoName,  first_name |-> "A", last_name |-> "L"] }
\* the names create_student is given: two that differ in every field
StudentInfos ==
    { [username |-> "alice", first_name |-> "A", last_name |-> "L"],
      [username |-> "bob",   first_name |-> "B", last_name |-> "M"] }
\* the user of the end-to-end scenario
Alice == [chat_id |-> 100,
          info |-> [username |-> "alice", first_name |-> "A", last_name |-> "L"]]
\* Student objects a caller constructs itself and never stored: without an id,
\* for a new chat and for a chat that may be stored, and with an id of its own
NewStudents ==
    { [key |-> NULL, id |-> NULL, username |-> "carol", chat_id |-> 300,
       last_name |-> "L", first_name |-> "A"],
      [key |-> NULL, id |-> NULL, username |-> "carol", chat_id |-> 100,
       last_name |-> "L", first_name |-> "A"],
      [key |-> NULL, id |-> 1, username |-> "carol", chat_id |-> 300,
       last_name |-> "L", first_name |-> "A"] }
\* values callers pass as student_id / admin_id: none, or an id
IdArgs == {NULL, 1, 2}
Days == 1..31
Contents == {"hello"}
PostageDates == {"2024-05-01"}

----------------------------------------------------------------------------
(* Storage *)

Max(S) == CHOOSE x \in S : \A y \in S : y <= x
Min(S) == CHOOSE x \in S : \A y \in S : x <= y
Ids(table) == {r.id : r \in table}

\* id: Optional[int] = Field(default=None, primary_key=True): an INTEGER
\* PRIMARY KEY column without AUTOINCREMENT, for which SQLite assigns one more
\* than the largest id in the table, and 1 in an empty table.
NextId(table) == IF table = {} THEN 1 ELSE Max(Ids(table)) + 1

\* session.query(cls).get(1): the row with that primary key, or None
Get(table, id) == {r \in table : r.id = id}

\* order_by(cls.id.desc()).first(), mistaken for ascending order
LowestId(table) == {r \in table : r.id = Min(Ids(table))}

\* order_by(cls.id.desc()).first(): the row with the largest id, or None
HighestId(table) == {r \in table : r.id = Max(Ids(table))}

\* What a method returns: absent (None), or an object standing for a row.
\* An object returned after session.commit() is expired (expire_on_commit)
\* and, the session being closed, detached: it keeps the row's identity, and
\* its attributes load again once it is added to a session.
Absent == [id |-> NULL, expired |-> FALSE]
Loaded(row) == [id |-> row.id, expired |-> FALSE]
Committed(row) == [id |-> row.id, expired |-> TRUE]

\* commit raised sqlalchemy.exc.IntegrityError: nothing is written
Raised == [id |-> NULL, expired |-> FALSE, error |-> "IntegrityError"]

\* .first() of a filter_by on an indexed column, without ORDER BY: SQLite walks
\* the index, in which equal keys are in rowid order
First(matches) == CHOOSE r \in matches : \A q \in matches : r.id <= q.id

\* a Student object a method returned: it has the identity of its row
Object(row) ==
    [key |-> row.id, id |-> row.id, username |-> row.username,
     chat_id |-> row.chat_id, last_name |-> row.last_name,
     first_name |-> row.first_name]

NoCall == [op |-> "none"]

\* History of a call: the tables before it, what it was given and returned,
\* how many rows it inserted, and how many rows its lookup could see before.
Log(op, arg, ret, before) ==
    /\ pre' = [students |-> students, tweets |-> tweets, admins |-> admins]
    /\ prev' = IF last.op \in {"create_student", "create_admin_once"}
               THEN last ELSE NoCall
    /\ last' = [op |-> op, arg |-> arg, ret |-> ret, before |-> before,
                inserted |-> Cardinality(students' \ students)
                             + Cardinality(tweets' \ tweets)
                             + Cardinality(admins' \ admins)]

----------------------------------------------------------------------------
(* Student *)

StudentArgs(username, chat_id, last_name, first_name) ==
    [username |-> username, chat_id |-> chat_id, last_name |-> last_name,
     first_name |-> first_name]

\* create_student that overwrites the stored names of the row it finds
create_student_update(username, chat_id, last_name, first_name) ==
    LET matches == {s \in students : s.chat_id = chat_id} IN
    IF matches # {}
    THEN LET existing_student == First(matches) IN
            /\ students' = (students \ {existing_student}) \cup
                   {[existing_student EXCEPT !.username = username,
                        !.last_name = last_name, !.first_name = first_name]}
            /\ Log("create_student",
                   StudentArgs(username, chat_id, last_name, first_name),
                   Loaded(existing_student), Cardinality(matches))
    ELSE LET student == [id |-> NextId(students), username |-> username,
                         chat_id |-> chat_id, last_name |-> last_name,
                         first_name |-> first_name, login_time |-> now,
                         logout_time |-> NULL] IN
            /\ students' = students \cup {student}
            /\ Log("create_student",
                   StudentArgs(username, chat_id, last_name, first_name),
                   Committed(student), 0)

\* create_student without its lookup: it inserts on every call
create_student_always(username, chat_id, last_name, first_name) ==
    LET student == [id |-> NextId(students), username |-> username,
                    chat_id |-> chat_id, last_name |-> last_name,
                    first_name |-> first_name, login_time |-> now,
                    logout_time |-> NULL] IN
    /\ students' = students \cup {student}
    /\ Log("create_student",
           StudentArgs(username, chat_id, last_name, first_name),
           Committed(student),
           Cardinality({s \in students : s.chat_id = chat_id}))

\* Student.create_student
create_student(username, chat_id, last_name, first_name) ==
    LET matches == {s \in students : s.chat_id = chat_id} IN
    IF matches # {}
    THEN LET existing_student == First(matches) IN
            /\ students' = students
            /\ Log("create_student",
                   StudentArgs(username, chat_id, last_name, first_name),
                   Loaded(existing_student), Cardinality(matches))
    ELSE LET student == [id |-> NextId(students), username |-> username,
                         chat_id |-> chat_id, last_name |-> last_name,
                         first_name |-> first_name, login_time |-> now,
                         logout_time |-> NULL] IN
            /\ students' = students \cup {student}
            /\ Log("create_student",
                   StudentArgs(username, chat_id, last_name, first_name),
                   Committed(student), 0)

\* a call of create_student with arguments from the given sets
CreateStudentOf(infos, chats) ==
    /\ UNCHANGED <<tweets, admins, now, newest, issued, pc, loc>>
    /\ \E u \in infos, c \in chats :
          create_student(u.username, c, u.last_name, u.first_name)

CreateStudent == CreateStudentOf(StudentInfos, ChatIds)

\* Student.get
StudentGet ==
    /\ UNCHANGED <<students, tweets, admins, now, newest, issued, pc, loc>>
    /\ \E c \in ChatIds :
          LET matches == {s \in students : s.chat_id = c} IN
          IF matches = {}
          THEN Log("Student.get", c, Absent, 0)
          ELSE Log("Student.get", c, Loaded(First(matches)),
                   Cardinality(matches))

\* the row that the INSERT of a new Student object writes: login_time is
\* never set on it
Inserted(self) ==
    [id |-> IF self.id = NULL THEN NextId(students) ELSE self.id,
     username |-> self.username, chat_id |-> self.chat_id,
     last_name |-> self.last_name, first_name |-> self.first_name,
     login_time |-> NULL, logout_time |-> now]

\* the commit of a new object fails when its id is the id of a stored row
Collides(self) ==
    self.key = NULL /\ self.id # NULL /\ \E s \in students : s.id = self.id

\* logout_user that keeps a logout_time already stored
logout_user_once(self) ==
    students' =
        IF self.key # NULL
        THEN {IF s.id = self.key /\ s.logout_time = NULL
              THEN [s EXCEPT !.logout_time = now] ELSE s : s \in students}
        ELSE IF Collides(self) THEN students
        ELSE students \cup {Inserted(self)}

\* Student.logout_user: self.logout_time = now, session.add(self), commit.
\* For an object with the identity of a row (one that Student.get or
\* create_student returned) the flush UPDATEs the one changed attribute of
\* that row; an object the caller constructed is new to the session, and the
\* flush INSERTs it.
logout_user(self) ==
    students' =
        IF self.key # NULL
        THEN {IF s.id = self.key THEN [s EXCEPT !.logout_time = now] ELSE s
              : s \in students}
        ELSE IF Collides(self) THEN students
        ELSE students \cup {Inserted(self)}

\* a call of logout_user on an object that a method returned, or on one of
\* the given objects that the caller constructed
LogoutUserOf(new) ==
    /\ UNCHANGED <<tweets, admins, now, newest, issued, pc, loc>>
    /\ \E self \in {Object(s) : s \in students} \cup new :
          /\ self.key = NULL => Cardinality(students) < MaxStudents
          /\ logout_user(self)
          /\ Log("logout_user",
                 [self |-> [key |-> self.key, chat_id |-> self.chat_id],
                  at |-> now],
                 IF Collides(self) THEN Raised ELSE Absent,
                 Cardinality({s \in students : s.id = self.key}))

LogoutUser == LogoutUserOf(NewStudents)

LogoutStoredUser == LogoutUserOf({})

\* the clock between two calls: it does not go back
Tick ==
    /\ now < MaxClock
    /\ now' = now + 1
    /\ UNCHANGED <<students, tweets, admins, pre, prev, last, newest, issued,
                   pc, loc>>

----------------------------------------------------------------------------
(* Tweet *)

\* Tweet.create_tweet: an unconditional insert.  chat_id_hex is no column of
\* the table and is dropped; student_id and admin_id are stored as given, the
\* engine of line 13 leaving SQLite's foreign-key enforcement off.
create_tweet(chat_id, username, first_name, last_name, content, postage_date, student_id, admin_id) ==
    LET tweet == [id |-> NextId(tweets), chat_id |-> chat_id,
                  username |-> username, first_name |-> first_name,
                  last_name |-> last_name, content |-> content,
                  postage_date |-> postage_date, student_id |-> student_id,
                  admin_id |-> admin_id] IN
    /\ tweets' = tweets \cup {tweet}
    /\ newest' = tweet.id
    /\ Log("create_tweet", chat_id, Committed(tweet), Cardinality(tweets))

\* a call of create_tweet with arguments from the given sets
CreateTweetOf(chats, infos, sids, aids) ==
    /\ UNCHANGED <<students, admins, now, issued, pc, loc>>
    /\ Cardinality(tweets) < MaxTweets
    /\ \E c \in chats, u \in infos, t \in Contents, d \in PostageDates,
          sid \in sids, aid \in aids :
          create_tweet(c, u.username, u.first_name, u.last_name, t, d, sid, aid)

\* the tweets of any user, owned by nobody or by admin 1
CreateTweet == CreateTweetOf(ChatIds, UserInfos, {NULL}, {NULL, 1})

\* the tweets of one user, owned by nobody or by an admin
CreateAdminTweet == CreateTweetOf({Alice.chat_id}, {Alice.info}, {NULL}, IdArgs)

\* the tweets of one user, with any student_id and admin_id
CreateOwnedTweet == CreateTweetOf({Alice.chat_id}, {Alice.info}, IdArgs, IdArgs)

\* get_by_user_info that leaves last_name out of the filter
get_by_user_info_three(chat_id, username, first_name, last_name) ==
    {t \in tweets : /\ t.chat_id = chat_id
                    /\ t.username = username
                    /\ t.first_name = first_name}

\* Tweet.get_by_user_info: filter_by on the four columns (username=None is
\* compared with IS NULL), .all()
get_by_user_info(chat_id, username, first_name, last_name) ==
    {t \in tweets : /\ t.chat_id = chat_id
                    /\ t.username = username
                    /\ t.first_name = first_name
                    /\ t.last_name = last_name}

GetByUserInfo ==
    /\ UNCHANGED <<students, tweets, admins, now, newest, issued, pc, loc>>
    /\ \E c \in ChatIds, u \in UserInfos :
          Log("get_by_user_info", [chat_id |-> c, info |-> u],
              get_by_user_info(c, u.username, u.first_name, u.last_name),
              Cardinality(tweets))

\* get_latest_request ordering by id ascending
get_latest_request_asc ==
    IF tweets = {} THEN Absent
    ELSE Loaded(CHOOSE t \in LowestId(tweets) : TRUE)

\* Tweet.get_latest_request
get_latest_request ==
    IF tweets = {} THEN Absent
    ELSE Loaded(CHOOSE t \in HighestId(tweets) : TRUE)

GetLatestRequest ==
    /\ UNCHANGED <<students, tweets, admins, now, newest, issued, pc, loc>>
    /\ Log("get_latest_request", NULL, get_latest_request, Cardinality(tweets))

----------------------------------------------------------------------------
(* Admin *)

AdminUsername == "sedayedaneshjoolu_admin"
AdminRole == "admin"
AdminNames == {AdminUsername, "someone_else"}

\* Admin.create_admin: cls() with the class defaults, add, commit
create_admin(table) ==
    table \cup {[id |-> NextId(table), username |-> AdminUsername,
                 role |-> AdminRole]}

CreateAdmin ==
    /\ UNCHANGED <<students, tweets, now, newest, pc, loc>>
    /\ Cardinality(admins) < MaxAdmins
    /\ admins' = create_admin(admins)
    /\ issued' = IF NextId(admins) > issued THEN NextId(admins) ELSE issued
    /\ Log("create_admin", NULL, Absent, Cardinality(admins))

\* create_admin_once without its lookup: it creates on every call
create_admin_once_always(table) == create_admin(table)

\* Admin.create_admin_once, the table it leaves: get(1), and create_admin
\* when there is no such row
create_admin_once(table) ==
    IF Get(table, 1) # {} THEN table ELSE create_admin(table)

\* create_admin_once returning what its first get(1) found
create_admin_once_result_stale(table) ==
    IF Get(table, 1) # {}
    THEN Loaded(CHOOSE admin \in Get(table, 1) : TRUE)
    ELSE Absent

\* Admin.create_admin_once, what it returns: the row get(1) found, or the
\* one the second get(1) finds after create_admin, or None
create_admin_once_result(table) ==
    LET after == Get(create_admin_once(table), 1) IN
    IF Get(table, 1) # {}
    THEN Loaded(CHOOSE admin \in Get(table, 1) : TRUE)
    ELSE IF after # {} THEN Loaded(CHOOSE admin \in after : TRUE)
         ELSE Absent

CreateAdminOnce ==
    /\ UNCHANGED <<students, tweets, now, newest, pc, loc>>
    /\ admins' = create_admin_once(admins)
    /\ issued' = IF Ids(admins' \ admins) # {} /\ Max(Ids(admins' \ admins)) > issued
                 THEN Max(Ids(admins' \ admins)) ELSE issued
    /\ Log("create_admin_once", NULL, create_admin_once_result(admins),
           Cardinality(admins))

\* Admin.remove_admin: the row with the largest id, if any, is deleted.  The
\* delete is an ORM delete and Admin.tweets has no delete cascade: the flush
\* first sets admin_id to NULL in the tweets of the deleted admin.
remove_admin ==
    IF admins = {}
    THEN UNCHANGED <<admins, tweets>>
    ELSE LET admin == CHOOSE a \in HighestId(admins) : TRUE IN
         /\ admins' = admins \ {admin}
         /\ tweets' = {IF t.admin_id = admin.id
                       THEN [t EXCEPT !.admin_id = NULL] ELSE t : t \in tweets}

RemoveAdmin ==
    /\ UNCHANGED <<students, now, newest, issued, pc, loc>>
    /\ remove_admin
    /\ Log("remove_admin", NULL, Absent, Cardinality(admins))

\* Admin.update_admin_monthly, today.day being day
update_admin_monthly(day) ==
    IF day = 30 THEN remove_admin ELSE UNCHANGED <<admins, tweets>>

UpdateAdminMonthly ==
    /\ UNCHANGED <<students, now, newest, issued, pc, loc>>
    /\ \E day \in Days :
          /\ update_admin_monthly(day)
          /\ Log("update_admin_monthly", day, Absent, Cardinality(admins))

\* Admin.get
AdminGet ==
    /\ UNCHANGED <<students, tweets, admins, now, newest, issued, pc, loc>>
    /\ \E username \in AdminNames :
          LET matches == {a \in admins : a.username = username} IN
          IF matches = {}
          THEN Log("Admin.get", NULL, Absent, 0)
          ELSE \E admin \in matches :
                  Log("Admin.get", NULL, Loaded(admin), Cardinality(matches))

----------------------------------------------------------------------------
(* The sequential specifications *)

Procs == {1, 2}

\* create_db_and_tables on a new file: the tables exist and are empty
Init ==
    /\ students = {}
    /\ tweets = {}
    /\ admins = {}
    /\ now = 1
    /\ pre = [students |-> {}, tweets |-> {}, admins |-> {}]
    /\ prev = NoCall
    /\ last = NoCall
    /\ newest = NULL
    /\ issued = NULL
    /\ pc = [p \in Procs |-> "idle"]
    /\ loc = [p \in Procs |-> NULL]

\* the calls that write: students, tweets owned by them and by admins, admins
Next ==
    \/ CreateStudentOf({Alice.info}, ChatIds)
    \/ CreateOwnedTweet
    \/ CreateAdminOnce
    \/ RemoveAdmin
    \/ UpdateAdminMonthly

Spec == Init /\ [][Next]_vars

\* the Student methods on students that are stored, and the clock
NextStudent ==
    \/ CreateStudent
    \/ StudentGet
    \/ LogoutStoredUser
    \/ Tick

SpecStudent == Init /\ [][NextStudent]_vars

\* logout_user on any Student object, with the students of one name, and the
\* clock
NextLogout ==
    \/ CreateStudentOf({Alice.info}, ChatIds)
    \/ LogoutUser
    \/ Tick

SpecLogout == Init /\ [][NextLogout]_vars

\* the Admin methods, and tweets that admins own
NextAdmin ==
    \/ CreateAdmin
    \/ CreateAdminOnce
    \/ RemoveAdmin
    \/ UpdateAdminMonthly
    \/ AdminGet
    \/ CreateAdminTweet

SpecAdmin == Init /\ [][NextAdmin]_vars

\* the Tweet methods
NextTweet ==
    \/ CreateTweet
    \/ GetByUserInfo
    \/ GetLatestRequest

SpecTweet == Init /\ [][NextTweet]_vars

----------------------------------------------------------------------------
(* Student.create_student, Student.logout_user *)

TwoCreateStudent ==
    /\ prev.op = "create_student"
    /\ last.op = "create_student"
    /\ prev.arg.chat_id = last.arg.chat_id

\* C1: two calls of create_student in a row with the same chat_id return
\* objects of the same id, the second inserts nothing, and when no student
\* had the chat_id before the first call the two insert exactly one row.
C1_CreateOrGetTwice ==
    TwoCreateStudent =>
        /\ last.ret.id = prev.ret.id
        /\ last.ret.id # NULL
        /\ last.inserted = 0
        /\ (prev.before = 0 => prev.inserted + last.inserted = 1)

\* the first call inserted the row, the second returned it
C1_Witness ==
    /\ TwoCreateStudent
    /\ prev.before = 0
    /\ prev.inserted = 1
    /\ prev.ret.expired
    /\ ~last.ret.expired
    /\ last.ret.id = 2

\* C5: create_student with a chat_id that a stored student has returns a
\* stored row of that chat_id and changes nothing in the students table,
\* whatever names it is given.
C5_FirstWriteWins ==
    (last.op = "create_student" /\ last.before > 0) =>
        /\ students = pre.students
        /\ \E s \in pre.students :
              s.id = last.ret.id /\ s.chat_id = last.arg.chat_id

\* the call gave another username, first_name and last_name than the stored
\* ones, to a student who has logged out already
C5_Witness ==
    /\ last.op = "create_student"
    /\ last.before > 0
    /\ \E s \in students :
          /\ s.id = last.ret.id
          /\ s.logout_time # NULL
          /\ s.username # last.arg.username
          /\ s.first_name # last.arg.first_name
          /\ s.last_name # last.arg.last_name

\* C8: logout_user on a stored student succeeds and stores the clock's value
\* as the logout_time of that student, over any value stored before, which
\* the clock had reached earlier; every other field and every other student is
\* left as it was.  On a Student object that was never stored it changes no
\* stored row either: it adds that student with the clock's value as
\* logout_time, or fails on an id that is taken.
C8_LogoutOverwrites ==
    last.op = "logout_user" =>
        IF last.arg.self.key # NULL
        THEN /\ last.ret = Absent
             /\ \E s \in pre.students : s.id = last.arg.self.key
             /\ \A s \in pre.students :
                   s.id = last.arg.self.key =>
                       /\ [s EXCEPT !.logout_time = last.arg.at] \in students
                       /\ s.logout_time <= last.arg.at
             /\ \A s \in pre.students :
                   s.id # last.arg.self.key => s \in students
             /\ Cardinality(students) = Cardinality(pre.students)
        ELSE /\ pre.students \subseteq students
             /\ \A s \in students \ pre.students :
                   /\ s.logout_time = last.arg.at
                   /\ s.chat_id = last.arg.self.chat_id
             /\ Cardinality(students \ pre.students) =
                   IF last.ret = Absent THEN 1 ELSE 0

\* a second logout of a stored student, later than the first, beside a
\* student it leaves alone
C8_Witness ==
    /\ last.op = "logout_user"
    /\ last.arg.self.key # NULL
    /\ \E s \in pre.students :
          /\ s.id = last.arg.self.key
          /\ s.logout_time # NULL
          /\ s.logout_time < last.arg.at
    /\ \E s \in students :
          /\ s.id # last.arg.self.key
          /\ s.logout_time # NULL
          /\ s.login_time # NULL

----------------------------------------------------------------------------
(* Tweet.get_latest_request, Tweet.get_by_user_info *)

\* C6: get_latest_request returns None when there is no tweet, and otherwise
\* the tweet that create_tweet inserted last.
C6_LatestIsNewest ==
    last.op = "get_latest_request" =>
        IF tweets = {} THEN last.ret = Absent
        ELSE /\ last.ret.id = newest
             /\ \E t \in tweets : t.id = last.ret.id

\* tweets A then B were created, and B is returned
C6_Witness ==
    /\ last.op = "get_latest_request"
    /\ Cardinality(tweets) = 2
    /\ last.ret.id = 2
    /\ newest = 2

\* C7: get_by_user_info returns the stored tweets that equal its four
\* arguments in chat_id, username, first_name and last_name, all of them and
\* no other, and changes no row.
C7_FindByUserExact ==
    last.op = "get_by_user_info" =>
        /\ last.ret \subseteq tweets
        /\ \A t \in last.ret :
              /\ t.chat_id = last.arg.chat_id
              /\ t.username = last.arg.info.username
              /\ t.first_name = last.arg.info.first_name
              /\ t.last_name = last.arg.info.last_name
        /\ \A t \in tweets \ last.ret :
              \/ t.chat_id # last.arg.chat_id
              \/ t.username # last.arg.info.username
              \/ t.first_name # last.arg.info.first_name
              \/ t.last_name # last.arg.info.last_name
        /\ tweets = pre.tweets
        /\ students = pre.students
        /\ admins = pre.admins

\* one tweet is returned and one that differs in last_name alone is not
C7_Witness ==
    /\ last.op = "get_by_user_info"
    /\ Cardinality(last.ret) = 1
    /\ \E t \in tweets \ last.ret :
          /\ t.chat_id = last.arg.chat_id
          /\ t.username = last.arg.info.username
          /\ t.first_name = last.arg.info.first_name
          /\ t.last_name # last.arg.info.last_name

----------------------------------------------------------------------------
(* Admin *)

\* the rows of before that are gone from after
Deleted(before, after) == before \ after

\* of the table before, exactly the row with the largest id is gone
LargestGone(before, after) ==
    /\ after \subseteq before
    /\ Cardinality(Deleted(before, after)) = 1
    /\ \A d \in Deleted(before, after) : \A a \in before : a.id <= d.id

\* C4: update_admin_monthly deletes exactly the admin row with the largest id
\* on day 30 when there is an admin, and leaves the admins table as it was on
\* every other day and when it is empty; remove_admin deletes exactly the row
\* with the largest id when there is one.
C4_MonthlyExpiry ==
    /\ last.op = "update_admin_monthly" =>
          IF last.arg = 30 /\ pre.admins # {}
          THEN LargestGone(pre.admins, admins)
          ELSE admins = pre.admins
    /\ last.op = "remove_admin" =>
          IF pre.admins # {}
          THEN LargestGone(pre.admins, admins)
          ELSE admins = pre.admins

\* on day 30, of two admins the one with id 2 was deleted
C4_Witness ==
    /\ last.op = "update_admin_monthly"
    /\ last.arg = 30
    /\ Ids(pre.admins) = {1, 2}
    /\ Ids(admins) = {1}

TwoCreateAdminOnce ==
    /\ prev.op = "create_admin_once"
    /\ last.op = "create_admin_once"

\* C2: two calls of create_admin_once in a row return an admin of the same id,
\* the second inserts nothing, and when there was no admin before the first
\* call the two insert exactly one row.
C2_EnsureAdminTwice ==
    TwoCreateAdminOnce =>
        /\ last.ret.id = prev.ret.id
        /\ last.ret.id # NULL
        /\ last.inserted = 0
        /\ (prev.before = 0 => prev.inserted + last.inserted = 1)

\* the first call found the table empty after two admins had been created
\* and removed
C2_Witness ==
    /\ TwoCreateAdminOnce
    /\ issued = 2
    /\ prev.before = 0
    /\ prev.inserted = 1
    /\ last.inserted = 0

----------------------------------------------------------------------------
(* Foreign keys *)

\* C3: every tweet's student_id, if set, is the id of a stored student, and
\* its admin_id, if set, the id of a stored admin.
C3_ReferentialIntegrity ==
    \A t \in tweets :
        /\ t.student_id # NULL => \E s \in students : s.id = t.student_id
        /\ t.admin_id # NULL => \E a \in admins : a.id = t.admin_id

----------------------------------------------------------------------------
(* Two callers at once: create_student and create_admin_once, statement by
   statement.  Each statement is one query or one commit of the caller's own
   session; nothing is locked between a lookup and the insert after it. *)

RaceInfos == StudentInfos

Frame == UNCHANGED <<tweets, now, pre, prev, last, newest>>

\* create_student up to its lookup: return the row found, or go on to insert
CheckStudent(p) ==
    /\ pc[p] = "idle"
    /\ Frame
    /\ UNCHANGED <<students, admins, issued>>
    /\ \E u \in RaceInfos, c \in ChatIds :
          LET matches == {s \in students : s.chat_id = c}
              args == StudentArgs(u.username, c, u.last_name, u.first_name) IN
          IF matches # {}
          THEN /\ pc' = [pc EXCEPT ![p] = "student_done"]
               /\ loc' = [loc EXCEPT ![p] = [arg |-> args, missing |-> FALSE,
                             ret |-> Loaded(First(matches))]]
          ELSE /\ pc' = [pc EXCEPT ![p] = "student_insert"]
               /\ loc' = [loc EXCEPT ![p] = [arg |-> args, missing |-> TRUE,
                             ret |-> Absent]]

\* an insert that a unique chat_id would refuse: the row found is kept
InsertStudentUnique(p) ==
    /\ pc[p] = "student_insert"
    /\ Frame
    /\ UNCHANGED <<admins, issued>>
    /\ students' = IF \E s \in students : s.chat_id = loc[p].arg.chat_id
                   THEN students
                   ELSE students \cup
                        {[id |-> NextId(students),
                          username |-> loc[p].arg.username,
                          chat_id |-> loc[p].arg.chat_id,
                          last_name |-> loc[p].arg.last_name,
                          first_name |-> loc[p].arg.first_name,
                          login_time |-> now, logout_time |-> NULL]}
    /\ pc' = [pc EXCEPT ![p] = "student_done"]
    /\ loc' = [loc EXCEPT ![p].ret = Committed([id |-> NextId(students)])]

\* create_student after a lookup that found nothing: cls(...), add, commit
InsertStudent(p) ==
    /\ pc[p] = "student_insert"
    /\ Frame
    /\ UNCHANGED <<admins, issued>>
    /\ LET student == [id |-> NextId(students),
                       username |-> loc[p].arg.username,
                       chat_id |-> loc[p].arg.chat_id,
                       last_name |-> loc[p].arg.last_name,
                       first_name |-> loc[p].arg.first_name,
                       login_time |-> now, logout_time |-> NULL] IN
          /\ students' = students \cup {student}
          /\ loc' = [loc EXCEPT ![p].ret = Committed(student)]
    /\ pc' = [pc EXCEPT ![p] = "student_done"]

\* create_admin_once up to its first get(1)
CheckAdmin(p) ==
    /\ pc[p] = "idle"
    /\ Frame
    /\ UNCHANGED <<students, admins, issued>>
    /\ IF Get(admins, 1) # {}
       THEN /\ pc' = [pc EXCEPT ![p] = "admin_done"]
            /\ loc' = [loc EXCEPT ![p] = [arg |-> NULL, missing |-> FALSE,
                          ret |-> Loaded(CHOOSE a \in Get(admins, 1) : TRUE)]]
       ELSE /\ pc' = [pc EXCEPT ![p] = "admin_create"]
            /\ loc' = [loc EXCEPT ![p] = [arg |-> NULL, missing |-> TRUE,
                          ret |-> Absent]]

\* cls.create_admin() inside create_admin_once: a session of its own
CreateMissingAdmin(p) ==
    /\ pc[p] = "admin_create"
    /\ Frame
    /\ UNCHANGED <<students, loc>>
    /\ admins' = create_admin(admins)
    /\ issued' = IF NextId(admins) > issued THEN NextId(admins) ELSE issued
    /\ pc' = [pc EXCEPT ![p] = "admin_reget"]

\* the second get(1) of create_admin_once, and its return
RegetAdmin(p) ==
    /\ pc[p] = "admin_reget"
    /\ Frame
    /\ UNCHANGED <<students, admins, issued>>
    /\ loc' = [loc EXCEPT ![p].ret =
                  IF Get(admins, 1) # {}
                  THEN Loaded(CHOOSE a \in Get(admins, 1) : TRUE) ELSE Absent]
    /\ pc' = [pc EXCEPT ![p] = "admin_done"]

\* the caller takes the result and may call again
Return(p) ==
    /\ pc[p] \in {"student_done", "admin_done"}
    /\ Frame
    /\ UNCHANGED <<students, admins, issued>>
    /\ pc' = [pc EXCEPT ![p] = "idle"]
    /\ loc' = [loc EXCEPT ![p] = NULL]

NextRace ==
    \E p \in Procs :
        \/ CheckStudent(p)
        \/ InsertStudent(p)
        \/ CheckAdmin(p)
        \/ CreateMissingAdmin(p)
        \/ RegetAdmin(p)
        \/ Return(p)

SpecRace == Init /\ [][NextRace]_vars

\* both callers have returned from calls whose lookup found nothing
BothMissed(done) ==
    /\ pc[1] = done
    /\ pc[2] = done
    /\ loc[1].missing
    /\ loc[2].missing

\* C9: when two calls of create_student with the same chat_id have both found
\* no row, both insert, and two students share the chat_id; when two calls of
\* create_admin_once have both found no row with id 1, both insert, and there
\* are two admins.
C9_BothInsert ==
    /\ (BothMissed("student_done") /\ loc[1].arg.chat_id = loc[2].arg.chat_id) =>
          /\ loc[1].ret.id # loc[2].ret.id
          /\ \A p \in Procs :
                \E s \in students :
                    s.id = loc[p].ret.id /\ s.chat_id = loc[p].arg.chat_id
    /\ BothMissed("admin_done") => Cardinality(admins) >= 2

\* two students share a chat_id, and two calls of create_admin_once that both
\* found no admin have left two admins
C9_Witness ==
    /\ \E s, t \in students : s.id # t.id /\ s.chat_id = t.chat_id
    /\ BothMissed("admin_done")
    /\ Ids(admins) = {1, 2}

====
